---- MODULE Spec2Model ----
(***************************************************************************)
(* Model of the sfrog crawl engine (sfrog/crawler/manager.py) together     *)
(* with the parts of fetcher.py, parser.py, robots.py, sitemap.py and      *)
(* utils/url_tools.py that it calls.                                       *)
(*                                                                         *)
(* crawl() runs on an asyncio event loop: one task is active between two   *)
(* suspension points.  The actions below are the segments of code between  *)
(* suspension points (a network fetch, a take from an empty queue, the     *)
(* semaphore, queue.join()).  queue.put() on the unbounded asyncio.Queue   *)
(* never suspends, so a put is part of the segment that makes it.          *)
(***************************************************************************)
EXTENDS Integers, Sequences, FiniteSets, TLC

(***************************************************************************)
(* Bounds of the model.                                                    *)
(***************************************************************************)
MaxThreads == 2
MaxDepth == 2

None == "None"
NoStatus == 0

(***************************************************************************)
(* URLs are strings; urlparse is the table below.                          *)
(***************************************************************************)
UBase == "http://example.com/"
UA == "http://example.com/a"
UB == "http://example.com/b"
UC == "http://example.com/c"
UFtp == "ftp://example.com/f"
UExt == "http://other.com/x"

Urls == {UBase, UA, UB, UC, UFtp, UExt}

urlparse(u) ==
    CASE u = UBase -> [scheme |-> "http", netloc |-> "example.com", path |-> "/"]
      [] u = UA -> [scheme |-> "http", netloc |-> "example.com", path |-> "/a"]
      [] u = UB -> [scheme |-> "http", netloc |-> "example.com", path |-> "/b"]
      [] u = UC -> [scheme |-> "http", netloc |-> "example.com", path |-> "/c"]
      [] u = UFtp -> [scheme |-> "ftp", netloc |-> "example.com", path |-> "/f"]
      [] u = UExt -> [scheme |-> "http", netloc |-> "other.com", path |-> "/x"]

is_same_domain(url, base) == urlparse(url).netloc = urlparse(base).netloc

is_allowed_scheme(url) == urlparse(url).scheme \in {"http", "https", ""}

RawBase == "HTTP://Example.COM"

urlparse_raw(u) ==
    IF u = RawBase THEN [scheme |-> "HTTP", netloc |-> "Example.COM", path |-> ""]
    ELSE urlparse(u)

lower(s) ==
    CASE s = "HTTP" -> "http"
      [] s = "Example.COM" -> "example.com"
      [] OTHER -> s

urlunparse(scheme, netloc, path) ==
    CHOOSE u \in Urls : urlparse(u) = [scheme |-> scheme, netloc |-> netloc, path |-> path]

canonicalize(url) ==
    LET parsed == urlparse_raw(url)
        scheme == IF lower(parsed.scheme) \in {"http", "https"} THEN lower(parsed.scheme) ELSE "http"
        netloc == lower(parsed.netloc)
        path == IF parsed.path = "" THEN "/" ELSE parsed.path
    IN  urlunparse(scheme, netloc, path)

base_url == canonicalize(RawBase)

(***************************************************************************)
(* The served site.  A site is named by four choices: the link topology,   *)
(* how two of its pages are served, its sitemap.xml and its robots.txt.    *)
(* Documents are keyed by their body, so byte-identical bodies carry the   *)
(* same links.                                                             *)
(***************************************************************************)
Topologies == {"chain", "cycle", "fork", "detour", "dups", "mixed"}
Servings == {"html", "dup", "timeout", "notfound", "plain", "noctype", "untyped", "empty",
             "malformed"}
Sitemaps == {"missing", "failed", "garbled", "urlsA", "urlsMixed"}
RobotsTxts == {"absent", "garbled", "denyB"}

\* normalized hrefs of the document that is page u's own body, in document order
PageHrefs(topo, u) ==
    CASE topo = "chain" ->
            (CASE u = UBase -> <<UA>> [] u = UA -> <<UB>> [] u = UB -> <<UC>> [] OTHER -> <<>>)
      [] topo = "cycle" ->
            (CASE u = UBase -> <<UA>> [] u = UA -> <<UBase>> [] OTHER -> <<>>)
      [] topo = "fork" ->
            (CASE u = UBase -> <<UA, UB>> [] u = UA -> <<UC>> [] u = UB -> <<UC, UA>> [] OTHER -> <<>>)
      [] topo = "detour" ->
            (CASE u = UBase -> <<UC>> [] u = UA -> <<UB>> [] u = UB -> <<UC>> [] OTHER -> <<>>)
      [] topo = "dups" ->
            (CASE u = UBase -> <<UA, UA, UBase, UB>> [] u = UA -> <<UB, UB>> [] u = UB -> <<UA>> [] OTHER -> <<>>)
      [] topo = "mixed" ->
            (CASE u = UBase -> <<UFtp, UExt, UA>> [] u = UA -> <<UExt, UB>> [] OTHER -> <<>>)

BodyOf(u) ==
    CASE u = UBase -> "body:/" [] u = UA -> "body:/a" [] u = UB -> "body:/b"
      [] u = UC -> "body:/c" [] OTHER -> "body:other"

Bodies == {BodyOf(u) : u \in Urls}

OwnerOf(body) == CHOOSE u \in Urls : BodyOf(u) = body

HtmlCtype == "Text/HTML; charset=utf-8"

OkHtml(u) == [status |-> 200, ctype |-> HtmlCtype, content |-> BodyOf(u), error |-> None, malformed |-> FALSE]

\* what the server answers for a GET of u
Response(s, u) ==
    IF u \in {UFtp, UExt} THEN
        [status |-> NoStatus, ctype |-> "", content |-> None, error |-> "client error", malformed |-> FALSE]
    ELSE IF u = UA /\ s.serve = "timeout" THEN
        [status |-> NoStatus, ctype |-> "", content |-> None, error |-> "timeout", malformed |-> FALSE]
    ELSE IF u = UA /\ s.serve = "notfound" THEN [OkHtml(u) EXCEPT !.status = 404]
    ELSE IF u = UA /\ s.serve \in {"plain", "untyped"}
         THEN [OkHtml(u) EXCEPT !.ctype = "text/plain"]
    ELSE IF (u = UA /\ s.serve = "noctype") \/ (u = UB /\ s.serve = "untyped")
         THEN [OkHtml(u) EXCEPT !.ctype = ""]
    ELSE IF u = UA /\ s.serve = "empty" THEN [OkHtml(u) EXCEPT !.content = ""]
    ELSE IF u = UA /\ s.serve = "malformed" THEN [OkHtml(u) EXCEPT !.malformed = TRUE]
    ELSE IF u = UB /\ s.serve = "dup" THEN [OkHtml(u) EXCEPT !.content = BodyOf(UA)]
    ELSE OkHtml(u)

(***************************************************************************)
(* Fetcher.fetch, hashing, the parse gate, parse_html and _build_page.     *)
(***************************************************************************)
fetch(s, url) ==
    LET r == Response(s, url)
    IN  [url |-> url, status |-> r.status, headers |-> r.ctype, content |-> r.content,
         error |-> r.error, malformed |-> r.malformed]

Truthy(content) == content # None /\ content # ""

md5(content) ==
    CASE content = "body:/" -> "hash:/"
      [] content = "body:/a" -> "hash:/a"
      [] content = "body:/b" -> "hash:/b"
      [] content = "body:/c" -> "hash:/c"
      [] OTHER -> "hash:other"

\* headers.get("Content-Type", "").split(";")[0].strip().lower()
MediaType(header) ==
    CASE header = HtmlCtype -> "text/html"
      [] header = "text/plain" -> "text/plain"
      [] OTHER -> ""

ContainsHtml(media) == media \in {"text/html"}

NoParse == [ok |-> FALSE, title |-> None, internal_links |-> <<>>, external_links |-> <<>>]

RECURSIVE SelectLinks(_, _)
SelectLinks(hrefs, internal) ==
    IF hrefs = <<>> THEN <<>>
    ELSE IF is_same_domain(Head(hrefs), base_url) = internal
         THEN <<Head(hrefs)>> \o SelectLinks(Tail(hrefs), internal)
         ELSE SelectLinks(Tail(hrefs), internal)

parse_html(s, url, html) ==
    LET hrefs == PageHrefs(s.topo, OwnerOf(html))
    IN  [ok |-> TRUE, title |-> "title", internal_links |-> SelectLinks(hrefs, TRUE),
         external_links |-> SelectLinks(hrefs, FALSE)]

maybe_parse_html_OkOnly(s, url, result) ==
    IF result.status = NoStatus \/ result.status >= 400 THEN NoParse
    ELSE IF MediaType(result.headers) # "" /\ ~ContainsHtml(MediaType(result.headers)) THEN NoParse
    ELSE IF ~Truthy(result.content) \/ result.malformed THEN NoParse
    ELSE parse_html(s, url, result.content)

maybe_parse_html_NoGate(s, url, result) ==
    IF ~Truthy(result.content) \/ result.malformed THEN NoParse
    ELSE parse_html(s, url, result.content)

maybe_parse_html(s, url, result) ==
    LET content_type == MediaType(result.headers)
    IN  IF content_type # "" /\ ~ContainsHtml(content_type) THEN NoParse
        ELSE IF ~Truthy(result.content) THEN NoParse
        ELSE IF result.malformed THEN NoParse
        ELSE parse_html(s, url, result.content)

build_page(result, parsed, content_hash) ==
    [url |-> result.url, status |-> result.status, title |-> parsed.title,
     internal_links |-> parsed.internal_links, external_links |-> parsed.external_links,
     content_hash |-> content_hash, error |-> result.error]

(***************************************************************************)
(* robots.txt and sitemap.xml as served, build_robots / RobotsRules.allows *)
(* and parse_sitemap.                                                      *)
(***************************************************************************)
RobotsFetch(s) ==
    IF s.rob = "absent"
    THEN [status |-> NoStatus, content |-> None, error |-> "client error"]
    ELSE [status |-> 200, content |-> s.rob, error |-> None]

\* the parsed rules, None when there is no text or Robots.parse raises
build_robots(text) ==
    IF Truthy(text) /\ text # "garbled" THEN text ELSE None

Disallowed(rules) == IF rules = "denyB" THEN {UB} ELSE {}

allows_DenyWhenMissing(rules, url) ==
    IF rules = None THEN FALSE ELSE url \notin Disallowed(rules)

allows(rules, url) == IF rules = None THEN TRUE ELSE url \notin Disallowed(rules)

SitemapFetch(s) ==
    CASE s.smap = "missing" -> [status |-> 404, content |-> "not found", error |-> None]
      [] s.smap = "failed" -> [status |-> NoStatus, content |-> None, error |-> "timeout"]
      [] OTHER -> [status |-> 200, content |-> s.smap, error |-> None]

\* the normalized <loc> entries; raises on malformed XML
SitemapRaises(text) == text \in {"garbled", "not found"}

parse_sitemap(text) ==
    CASE text = "urlsA" -> <<UA>>
      [] text = "urlsMixed" -> <<UFtp, UExt, UBase, UB, UB>>
      [] OTHER -> <<>>

(***************************************************************************)
(* State of one crawl() call.                                              *)
(***************************************************************************)
VARIABLES
    site,               \* the site being crawled (fixed during the call)
    max_depth, threads, progress_callback,   \* CrawlManager.__init__ arguments
    run,                \* which call of crawl() on this site and configuration this is
    first_result,       \* the CrawlResult of the first call, once a second one is made
    queue,              \* asyncio.Queue contents: entries (url, depth, source)
    unfinished,         \* asyncio.Queue._unfinished_tasks
    visited, enqueued, edges, pages, duplicate_map, broken_links,
    robots,             \* self.robots
    sem,                \* free permits of self.sem
    session,            \* Fetcher._session: "none", "open" or "closed"
    main_pc,            \* where crawl() is
    worker,             \* per worker task: where it is and the entry it holds
    result,             \* the CrawlResult, None until crawl() returns
    \* history, written only to state the properties
    puts,               \* url -> number of queue.put calls for it
    put_recs,           \* one record per queue.put
    taken,              \* entries returned by queue.get
    fetch_started,      \* url -> number of page fetches issued
    fetch_returned,     \* url -> number of page fetches that returned
    emitted,            \* (url, depth) of every entry a PageData was appended for
    cb_calls            \* the PageData passed to the progress callback, in call order

\* what no step of crawl() writes
cfg_vars == <<site, max_depth, threads, progress_callback, run, first_result>>
crawl_vars == <<visited, enqueued, edges, pages, duplicate_map, broken_links>>
hist_vars == <<puts, put_recs, taken, fetch_started, fetch_returned, emitted, cb_calls>>
vars == <<cfg_vars, queue, unfinished, crawl_vars, robots, sem, session, main_pc,
          worker, result, hist_vars>>

\* every topology, sitemap and robots.txt with plain HTML pages, and every way of
\* serving a page on two of the topologies
Sites ==
    {s \in [topo : Topologies, serve : Servings, smap : Sitemaps, rob : RobotsTxts] :
        \/ s.serve = "html"
        \/ s.topo \in {"chain", "fork"} /\ s.smap \in {"missing", "urlsA"} /\ s.rob = "absent"}

Workers == 1..threads

Entry(url, depth, source) == [url |-> url, depth |-> depth, source |-> source]

NoResult == [pages |-> <<>>, edges |-> <<>>, duplicate_map |-> <<>>, broken_links |-> <<>>]

IdleWorker == [pc |-> "idle", url |-> None, depth |-> 0, source |-> None]

Init ==
    /\ site \in Sites
    /\ max_depth \in 0..MaxDepth
    /\ threads \in 1..MaxThreads
    /\ progress_callback \in {None, "callback"}
    /\ run = 1
    /\ first_result = NoResult
    /\ queue = <<>>
    /\ unfinished = 0
    /\ visited = {}
    /\ enqueued = {}
    /\ edges = <<>>
    /\ pages = <<>>
    /\ duplicate_map = <<>>
    /\ broken_links = <<>>
    /\ robots = [is_none |-> TRUE, rules |-> None]
    /\ sem = threads
    /\ session = "none"
    /\ main_pc = "seed"
    /\ worker = [w \in Workers |-> [IdleWorker EXCEPT !.pc = "unborn"]]
    /\ result = NoResult
    /\ puts = [u \in Urls |-> 0]
    /\ put_recs = {}
    /\ taken = {}
    /\ fetch_started = [u \in Urls |-> 0]
    /\ fetch_returned = [u \in Urls |-> 0]
    /\ emitted = {}
    /\ cb_calls = <<>>

\* Fetcher._ensure_session
ensure_session(sess) == IF sess \in {"none", "closed"} THEN "open" ELSE sess

\* Fetcher.close
close(sess) == IF sess = "open" THEN "closed" ELSE sess

(***************************************************************************)
(* queue.put(entry) followed by enqueued.add(url), on the frontier state   *)
(* fr = [queue, unfinished, enqueued, puts, put_recs].                     *)
(***************************************************************************)
PutAndRecord(fr, url, depth, source, origin, parent_depth) ==
    [queue |-> Append(fr.queue, Entry(url, depth, source)),
     unfinished |-> fr.unfinished + 1,
     enqueued |-> fr.enqueued \cup {url},
     puts |-> [fr.puts EXCEPT ![url] = @ + 1],
     put_recs |-> fr.put_recs \cup
        {[url |-> url, depth |-> depth, source |-> source, origin |-> origin,
          parent_depth |-> parent_depth, was_visited |-> url \in visited,
          was_enqueued |-> url \in fr.enqueued, nth |-> fr.puts[url] + 1]}]

Frontier == [queue |-> queue, unfinished |-> unfinished, enqueued |-> enqueued,
             puts |-> puts, put_recs |-> put_recs]

SetFrontier(fr) ==
    /\ queue' = fr.queue
    /\ unfinished' = fr.unfinished
    /\ enqueued' = fr.enqueued
    /\ puts' = fr.puts
    /\ put_recs' = fr.put_recs

(***************************************************************************)
(* _prepare_seed_urls                                                      *)
(***************************************************************************)
SeedBase ==
    /\ main_pc = "seed"
    /\ SetFrontier(PutAndRecord(Frontier, base_url, 0, None, "base", -1))
    /\ session' = ensure_session(session)
    /\ main_pc' = "robots"
    /\ UNCHANGED <<cfg_vars, visited, edges, pages, duplicate_map, broken_links, robots,
                   sem, worker, result, taken, fetch_started, fetch_returned, emitted, cb_calls>>

RobotsReturn ==
    /\ main_pc = "robots"
    /\ LET robots_result == RobotsFetch(site)
           text == IF Truthy(robots_result.content) THEN robots_result.content ELSE None
       IN  robots' = [is_none |-> FALSE, rules |-> build_robots(text)]
    /\ session' = ensure_session(session)
    /\ main_pc' = "sitemap"
    /\ UNCHANGED <<cfg_vars, queue, unfinished, crawl_vars, sem, worker, result, hist_vars>>

SeedAdmit_DomainOnly(url, enq) == is_same_domain(url, base_url)

SeedAdmit(url, enq) == is_same_domain(url, base_url) /\ url \notin enq

RECURSIVE SeedUrls(_, _)
SeedUrls(urls, fr) ==
    IF urls = <<>> THEN fr
    ELSE SeedUrls(Tail(urls),
                  IF SeedAdmit(Head(urls), fr.enqueued)
                  THEN PutAndRecord(fr, Head(urls), 0, None, "sitemap", -1)
                  ELSE fr)

SitemapReturn ==
    /\ main_pc = "sitemap"
    /\ LET sitemap_result == SitemapFetch(site)
           urls == IF SitemapRaises(sitemap_result.content) THEN <<>>
                   ELSE parse_sitemap(sitemap_result.content)
       IN  IF sitemap_result.status # NoStatus /\ sitemap_result.status < 400
              /\ Truthy(sitemap_result.content)
           THEN SetFrontier(SeedUrls(urls, Frontier))
           ELSE UNCHANGED <<queue, unfinished, enqueued, puts, put_recs>>
    /\ main_pc' = "start"
    /\ UNCHANGED <<cfg_vars, visited, edges, pages, duplicate_map, broken_links, robots,
                   sem, session, worker, result, taken, fetch_started, fetch_returned,
                   emitted, cb_calls>>

(***************************************************************************)
(* crawl(): workers are created, the frontier is joined, the workers are   *)
(* cancelled and gathered, the fetcher is closed, the result is built.     *)
(***************************************************************************)
StartWorkers ==
    /\ main_pc = "start"
    /\ worker' = [w \in Workers |-> IdleWorker]
    /\ main_pc' = "join"
    /\ UNCHANGED <<cfg_vars, queue, unfinished, crawl_vars, robots, sem, session, result,
                   hist_vars>>

Busy(w) == worker[w].pc \in {"acquire", "fetching"}

JoinReturns_WhenQueueEmpty == queue = <<>>

\* queue.join() returns once the count of unfinished entries has reached zero
JoinReturns == unfinished = 0

CancelWorkers ==
    /\ main_pc = "join"
    /\ JoinReturns
    /\ worker' = [w \in Workers |->
                    IF worker[w].pc = "idle" THEN [IdleWorker EXCEPT !.pc = "returned"]
                    ELSE IF Busy(w) THEN [IdleWorker EXCEPT !.pc = "cancelled"]
                    ELSE worker[w]]
    /\ unfinished' = unfinished - Cardinality({w \in Workers : Busy(w)})
    /\ sem' = sem + Cardinality({w \in Workers : worker[w].pc = "fetching"})
    /\ main_pc' = "close"
    /\ UNCHANGED <<cfg_vars, queue, crawl_vars, robots, session, result, hist_vars>>

FilterDuplicates_KeepAll(dm) == dm

\* {k: v for k, v in self.duplicate_map.items() if len(v) > 1}
FilterDuplicates(dm) == [h \in {k \in DOMAIN dm : Len(dm[k]) > 1} |-> dm[h]]

CloseAndReturn ==
    /\ main_pc = "close"
    /\ session' = close(session)
    /\ result' = [pages |-> pages, edges |-> edges,
                  duplicate_map |-> FilterDuplicates(duplicate_map),
                  broken_links |-> broken_links]
    /\ main_pc' = "done"
    /\ UNCHANGED <<cfg_vars, queue, unfinished, crawl_vars, robots, sem, worker, hist_vars>>

(***************************************************************************)
(* _worker and _process_url.                                               *)
(***************************************************************************)
RobotsDenies_Never(url) == FALSE

\* self.robots and not self.robots.allows(url)
RobotsDenies(url) == ~robots.is_none /\ ~allows(robots.rules, url)

TooDeep_OffByOne(depth) == depth > max_depth + 1

TooDeep_Inclusive(depth) == depth >= max_depth

TooDeep(depth) == depth > max_depth

EdgesAfterTake_SeedsToo(e) ==
    IF RobotsDenies(e.url) \/ TooDeep(e.depth) THEN edges
    ELSE Append(edges, <<IF e.source # None THEN e.source ELSE base_url, e.url>>)

EdgesAfterTake_Always(e) ==
    IF e.source # None THEN Append(edges, <<e.source, e.url>>) ELSE edges

\* the edge appended for a taken entry e that was not visited before
EdgesAfterTake(e) ==
    IF RobotsDenies(e.url) \/ TooDeep(e.depth) THEN edges
    ELSE IF e.source # None THEN Append(edges, <<e.source, e.url>>)
    ELSE edges

\* queue.get() returns an entry; _process_url runs up to the semaphore
WorkerTake(w) ==
    /\ worker[w].pc = "idle"
    /\ queue # <<>>
    /\ LET e == Head(queue)
       IN  /\ queue' = Tail(queue)
           /\ taken' = taken \cup {e}
           /\ IF e.url \in visited
              THEN /\ unfinished' = unfinished - 1
                   /\ UNCHANGED <<visited, edges, worker>>
              ELSE /\ visited' = visited \cup {e.url}
                   /\ edges' = EdgesAfterTake(e)
                   /\ IF RobotsDenies(e.url) \/ TooDeep(e.depth)
                      THEN /\ unfinished' = unfinished - 1
                           /\ UNCHANGED worker
                      ELSE /\ worker' = [worker EXCEPT ![w] =
                                [pc |-> "acquire", url |-> e.url, depth |-> e.depth,
                                 source |-> e.source]]
                           /\ UNCHANGED unfinished
    /\ UNCHANGED <<cfg_vars, enqueued, pages, duplicate_map, broken_links, robots, sem,
                   session, main_pc, result, puts, put_recs, fetch_started, fetch_returned,
                   emitted, cb_calls>>

\* the permit of self.sem is taken and the GET is sent
WorkerFetch(w) ==
    /\ worker[w].pc = "acquire"
    /\ sem > 0
    /\ sem' = sem - 1
    /\ session' = ensure_session(session)
    /\ fetch_started' = [fetch_started EXCEPT ![worker[w].url] = @ + 1]
    /\ worker' = [worker EXCEPT ![w].pc = "fetching"]
    /\ UNCHANGED <<cfg_vars, queue, unfinished, crawl_vars, robots, main_pc, result, puts,
                   put_recs, taken, fetch_returned, emitted, cb_calls>>

Admit_IgnoreEnqueued(link, enq) ==
    is_allowed_scheme(link) /\ link \notin visited /\ is_same_domain(link, base_url)

\* the admission test of the link loop
Admit(link, enq) ==
    /\ is_allowed_scheme(link)
    /\ link \notin visited /\ link \notin enq /\ is_same_domain(link, base_url)

ChildDepth(depth) == depth + 1

RECURSIVE EnqueueLinks(_, _, _, _)
EnqueueLinks(links, depth, url, fr) ==
    IF links = <<>> THEN fr
    ELSE EnqueueLinks(Tail(links), depth, url,
                      IF Admit(Head(links), fr.enqueued)
                      THEN PutAndRecord(fr, Head(links), ChildDepth(depth), url, "link", depth)
                      ELSE fr)

AddDuplicate(dm, h, url) ==
    IF h \in DOMAIN dm THEN [dm EXCEPT ![h] = Append(@, url)] ELSE dm @@ (h :> <<url>>)

AppendPage_UnlessEmpty(pgs, page) ==
    IF page.content_hash = None THEN pgs ELSE Append(pgs, page)

AppendPage_UnlessError(pgs, page) == IF page.error # None THEN pgs ELSE Append(pgs, page)

AppendPage(pgs, page) == Append(pgs, page)

TaskDoneOnRaise_Skipped == unfinished

\* _worker: `finally: self.queue.task_done()` when _process_url raises
TaskDoneOnRaise == unfinished - 1

ReleasePermit_UnlessError(fetched) == IF fetched.error # None THEN sem ELSE sem + 1

\* leaving `async with self.sem`, however the fetch ended
ReleasePermit(fetched) == sem + 1

IsBroken_ServerErrorsOnly(page) == page.status # NoStatus /\ page.status >= 500

\* page.status and page.status >= 400
IsBroken(page) == page.status # NoStatus /\ page.status >= 400

InvokesCallback_ParsedOnly(page) == progress_callback # None /\ page.title # None

\* if self._progress_callback: self._progress_callback(page)
InvokesCallback(page) == progress_callback # None

\* the fetch returns; the rest of _process_url; task_done()
FetchReturn(w) ==
    /\ worker[w].pc = "fetching"
    /\ LET url == worker[w].url
           depth == worker[w].depth
           fetched == fetch(site, url)
           has_body == Truthy(fetched.content)
           content_hash == IF has_body THEN md5(fetched.content) ELSE None
           parsed == IF has_body THEN maybe_parse_html(site, url, fetched) ELSE NoParse
           page == build_page(fetched, parsed, content_hash)
       IN  /\ sem' = ReleasePermit(fetched)
           /\ fetch_returned' = [fetch_returned EXCEPT ![url] = @ + 1]
           /\ duplicate_map' = IF has_body /\ content_hash # None
                               THEN AddDuplicate(duplicate_map, content_hash, url)
                               ELSE duplicate_map
           /\ pages' = AppendPage(pages, page)
           /\ emitted' = emitted \cup {[url |-> url, depth |-> depth]}
           /\ broken_links' = IF IsBroken(page)
                              THEN Append(broken_links, page) ELSE broken_links
           /\ cb_calls' = IF InvokesCallback(page)
                          THEN Append(cb_calls, page) ELSE cb_calls
           /\ \E raises \in (IF InvokesCallback(page) THEN BOOLEAN ELSE {FALSE}) :
                IF raises
                THEN \* the exception leaves _process_url and, after task_done(), the worker
                     /\ unfinished' = TaskDoneOnRaise
                     /\ worker' = [worker EXCEPT ![w] = [IdleWorker EXCEPT !.pc = "dead"]]
                     /\ UNCHANGED <<queue, enqueued, puts, put_recs>>
                ELSE LET fr == IF parsed.ok
                               THEN EnqueueLinks(parsed.internal_links, depth, url, Frontier)
                               ELSE Frontier
                     IN  /\ SetFrontier([fr EXCEPT !.unfinished = @ - 1])
                         /\ worker' = [worker EXCEPT ![w] = IdleWorker]
    /\ UNCHANGED <<cfg_vars, visited, edges, robots, session, main_pc, result, taken,
                   fetch_started>>

Next ==
    \/ SeedBase
    \/ RobotsReturn
    \/ SitemapReturn
    \/ StartWorkers
    \/ \E w \in Workers : WorkerTake(w)
    \/ \E w \in Workers : WorkerFetch(w)
    \/ \E w \in Workers : FetchReturn(w)
    \/ CancelWorkers
    \/ CloseAndReturn

Spec == Init /\ [][Next]_vars

\* the same crawl with no progress callback configured
InitNoCallback == Init /\ progress_callback = None

SpecNoCallback == InitNoCallback /\ [][Next]_vars

\* the caller builds a new CrawlManager with the same arguments and calls crawl()
\* a second time on the same site
Restart ==
    /\ main_pc = "done" /\ run = 1
    /\ run' = 2
    /\ first_result' = result
    /\ queue' = <<>> /\ unfinished' = 0
    /\ visited' = {} /\ enqueued' = {} /\ edges' = <<>> /\ pages' = <<>>
    /\ duplicate_map' = <<>> /\ broken_links' = <<>>
    /\ robots' = [is_none |-> TRUE, rules |-> None]
    /\ sem' = threads
    /\ session' = "none"
    /\ main_pc' = "seed"
    /\ worker' = [w \in Workers |-> [IdleWorker EXCEPT !.pc = "unborn"]]
    /\ result' = NoResult
    /\ puts' = [u \in Urls |-> 0] /\ put_recs' = {} /\ taken' = {}
    /\ fetch_started' = [u \in Urls |-> 0] /\ fetch_returned' = [u \in Urls |-> 0]
    /\ emitted' = {} /\ cb_calls' = <<>>
    /\ UNCHANGED <<site, max_depth, threads, progress_callback>>

\* an exception (asyncio.CancelledError thrown by the caller, or an error that
\* Fetcher.fetch does not catch) is raised at one of the awaits of crawl(): the
\* two seeding fetches and queue.join(); it leaves crawl() at once
CrawlRaises ==
    /\ main_pc \in {"robots", "sitemap", "join"}
    /\ main_pc' = "raised"
    /\ UNCHANGED <<cfg_vars, queue, unfinished, crawl_vars, robots, sem, session, worker,
                   result, hist_vars>>

NextWithRaise == Next \/ CrawlRaises

\* crawl() with its exceptional exits
SpecWithRaise == Init /\ [][NextWithRaise]_vars

NextTwoRuns == Next \/ Restart

\* two calls of crawl(), one after the other, with no progress callback
SpecTwoRuns == InitNoCallback /\ [][NextTwoRuns]_vars

(***************************************************************************)
(* Properties.                                                             *)
(***************************************************************************)
Range(seq) == {seq[i] : i \in DOMAIN seq}

PagesOf(pgs, u) == {i \in DOMAIN pgs : pgs[i].url = u}

\* C1: under any interleaving of the workers, every URL is put on the frontier at
\* most once, and no put (base, sitemap or link) is made for a URL that is
\* already in `enqueued`.
C1_PutAtMostOnce ==
    /\ \A u \in Urls : puts[u] <= 1
    /\ \A r \in put_recs : ~r.was_enqueued

\* a page that lists a link several times and two pages that list the same link
\* have all been processed by two workers
C1_Witness ==
    /\ site.topo = "dups" /\ threads = 2
    /\ \A u \in {UBase, UA, UB} : \E i \in DOMAIN pages : pages[i].url = u /\ pages[i].title # None
    /\ puts[UA] = 1 /\ puts[UB] = 1
    /\ \E r1, r2 \in put_recs : r1.source = UBase /\ r2.source = UBase /\ r1.url # r2.url

\* C2: every URL is fetched as a page at most once, and `pages` holds exactly one
\* PageData for each URL whose page fetch has returned and none for any other URL.
C2_OnePagePerFetch ==
    \A u \in Urls :
        /\ fetch_started[u] <= 1
        /\ Cardinality(PagesOf(pages, u)) = fetch_returned[u]

\* three pages are recorded, one of them for a failed fetch, while another fetch
\* is still in flight
C2_Witness ==
    /\ Len(pages) >= 2
    /\ \E i \in DOMAIN pages : pages[i].error # None
    /\ \E u \in Urls : fetch_started[u] = 1 /\ fetch_returned[u] = 0 /\ PagesOf(pages, u) = {}

\* some task of the event loop can run: crawl() itself, or a worker
CanStep ==
    \/ main_pc \in {"seed", "robots", "sitemap", "start", "close"}
    \/ main_pc = "join" /\ unfinished = 0
    \/ \E w \in Workers :
        \/ worker[w].pc = "idle" /\ queue # <<>>
        \/ worker[w].pc = "acquire" /\ sem > 0
        \/ worker[w].pc = "fetching"

\* C3: for threads >= 1 and a finite site, if every fetch returns then crawl()
\* returns: the frontier drains, join() completes, the workers are cancelled and
\* the CrawlResult is produced.  Every step adds to the history of takes and
\* fetches or advances crawl(), so no behaviour runs forever, and crawl() returns
\* exactly when it never comes to a halt before its return.
C3_CrawlReturns == main_pc = "done" \/ CanStep

\* the robots rules the site's robots.txt yields
SiteRules(s) ==
    LET r == RobotsFetch(s)
    IN  build_robots(IF Truthy(r.content) THEN r.content ELSE None)

\* the links a crawler may follow from u: the internal links of u's page when it is
\* fetched and parsed as HTML, to same-host URLs of an allowed scheme that robots allows
FollowableLinks(s, u) ==
    LET r == fetch(s, u)
        parsed == IF Truthy(r.content) THEN maybe_parse_html(s, u, r) ELSE NoParse
    IN  {v \in Range(parsed.internal_links) :
            /\ is_allowed_scheme(v) /\ is_same_domain(v, base_url)
            /\ allows(SiteRules(s), v)}

RECURSIVE ReachableWithin(_, _)
ReachableWithin(s, d) ==
    IF d = 0 THEN {u \in {base_url} : allows(SiteRules(s), u)}
    ELSE LET near == ReachableWithin(s, d - 1)
         IN  near \cup UNION {FollowableLinks(s, u) : u \in near}

\* C4: when crawl() returns, every same-host URL reachable from the seed by a
\* chain of at most max_depth followable links has a PageData in `pages`, for
\* every number of workers and every order of fetch completions.
C4_ReachablePagesCrawled ==
    main_pc = "done" =>
        \A u \in ReachableWithin(site, max_depth) : PagesOf(result.pages, u) # {}

\* C5: an entry put for a link found while processing an entry of depth d carries
\* depth d+1, the base and sitemap entries carry depth 0, and no PageData is
\* appended for an entry whose depth is greater than max_depth.
C5_DepthDiscipline ==
    /\ \A r \in put_recs :
        IF r.origin = "link" THEN r.depth = r.parent_depth + 1 ELSE r.depth = 0
    /\ \A e \in emitted : e.depth <= max_depth

\* a page at depth max_depth was emitted, its link was put at max_depth + 1, and
\* that entry was taken and skipped
C5_Witness ==
    /\ max_depth >= 1
    /\ \E r \in put_recs :
        /\ r.origin = "link" /\ r.depth = max_depth + 1
        /\ [url |-> r.source, depth |-> max_depth] \in emitted
        /\ Entry(r.url, r.depth, r.source) \in taken
        /\ PagesOf(pages, r.url) = {}

\* C6: every URL ever put on the frontier, by sitemap seeding or by link
\* discovery, has an http, https or empty scheme and the authority of the base
\* URL, and was in neither `visited` nor `enqueued` when it was put.
C6_OnlyAdmissibleUrlsPut ==
    \A r \in put_recs :
        /\ is_allowed_scheme(r.url)
        /\ is_same_domain(r.url, base_url)
        /\ ~r.was_visited /\ ~r.was_enqueued

\* the entry at the head of the queue is one that _process_url skips
HeadSkipped ==
    /\ queue # <<>>
    /\ Head(queue).url \notin visited
    /\ \/ ~robots.is_none /\ Head(queue).url \in Disallowed(robots.rules)
       \/ Head(queue).depth > max_depth

\* C7: processing a taken entry whose URL robots denies, or whose depth is
\* greater than max_depth, adds the URL to `visited` and changes nothing else: no
\* fetch is issued, pages, edges, duplicate_map, broken_links and enqueued stay as
\* they are, the frontier only loses the taken entry, the callback is not invoked,
\* and no entry is ever put with that URL as its source.
C7_SkipChangesOnlyVisited ==
    /\ [][\A w \in Workers : (WorkerTake(w) /\ HeadSkipped) =>
            /\ visited' = visited \cup {Head(queue).url}
            /\ queue' = Tail(queue)
            /\ worker'[w].pc = "idle"
            /\ UNCHANGED <<pages, edges, duplicate_map, broken_links, enqueued,
                           fetch_started, cb_calls, puts, sem, session>>]_vars
    /\ [](\A r \in put_recs : r.source # None => \E e \in emitted : e.url = r.source)

\* one entry was skipped for robots and another for its depth
C7_Witness ==
    /\ \E e \in taken : ~robots.is_none /\ e.url \in Disallowed(robots.rules)
    /\ \E e \in taken : e.depth > max_depth /\ e.source # None
    /\ \E e \in taken : PagesOf(pages, e.url) # {}

\* C8 as claimed: for every entry taken with a non-empty source s and URL u, the
\* pair (s, u) is in `edges`, whether or not the later fetch of u succeeds.
C8_EdgeForEveryTakenEntry ==
    \A e \in taken : e.source # None => <<e.source, e.url>> \in Range(edges)

\* C8 as amended: for every entry taken with a non-empty source s and URL u that
\* robots allows and whose depth is at most max_depth, the pair (s, u) is in
\* `edges`, whether or not the later fetch of u succeeds.
C8_EdgeForEveryProcessedEntry ==
    \A e \in taken :
        (/\ e.source # None
         /\ robots.is_none \/ e.url \notin Disallowed(robots.rules)
         /\ e.depth <= max_depth)
        => <<e.source, e.url>> \in Range(edges)

\* the fetch of a linked URL has failed and its edge is recorded
C8_Witness ==
    \E i \in DOMAIN pages :
        /\ pages[i].error # None
        /\ \E e \in taken : e.url = pages[i].url /\ e.source # None
                            /\ <<e.source, e.url>> \in Range(edges)

\* the site of two HTML pages that link to each other, no sitemap, no robots.txt
TwoPageCycle ==
    /\ site.topo = "cycle" /\ site.serve = "html"
    /\ site.smap = "missing" /\ site.rob = "absent"

\* C9: on the two-page cycle crawled from the first page with max_depth >= 1 the
\* crawl returns, each page has been processed exactly once, and the final
\* `edges` holds both directions.
C9_CycleCrawl ==
    (TwoPageCycle /\ max_depth >= 1) =>
        /\ main_pc = "done" \/ CanStep
        /\ main_pc = "done" =>
            /\ \A u \in {UBase, UA} :
                fetch_returned[u] = 1 /\ Cardinality(PagesOf(result.pages, u)) = 1
            /\ <<UBase, UA>> \in Range(result.edges)
            /\ <<UA, UBase>> \in Range(result.edges)

\* the URLs whose PageData in pgs carries content_hash h
UrlsWithHash(pgs, h) == {pgs[i].url : i \in {j \in DOMAIN pgs : pgs[j].content_hash = h}}

\* C10: in the CrawlResult every key h of duplicate_map maps to at least two
\* distinct URLs, each of which has a PageData in `pages` with content_hash h, and
\* a hash produced by only one URL is not a key.
C10_DuplicateMapOfResult ==
    main_pc = "done" =>
        /\ \A h \in DOMAIN result.duplicate_map :
            /\ Cardinality(Range(result.duplicate_map[h])) >= 2
            /\ Cardinality(Range(result.duplicate_map[h])) = Len(result.duplicate_map[h])
            /\ Range(result.duplicate_map[h]) \subseteq UrlsWithHash(result.pages, h)
        /\ \A i \in DOMAIN result.pages :
            LET h == result.pages[i].content_hash
            IN  (h # None /\ Cardinality(UrlsWithHash(result.pages, h)) <= 1)
                    => h \notin DOMAIN result.duplicate_map

\* crawl() has returned a result with a duplicate group and with a page whose
\* hash no other page shares
C10_Witness ==
    /\ main_pc = "done"
    /\ DOMAIN result.duplicate_map # {}
    /\ \E i \in DOMAIN result.pages :
        /\ result.pages[i].content_hash # None
        /\ Cardinality(UrlsWithHash(result.pages, result.pages[i].content_hash)) = 1

\* the PageData of a sequence of pages whose status is 400 or more, in order
BrokenOf(pgs) == SelectSeq(pgs, LAMBDA p : p.status # NoStatus /\ p.status >= 400)

\* C11: at every point `broken_links` consists of exactly those PageData of
\* `pages` whose status is >= 400.
C11_BrokenLinksExact == broken_links = BrokenOf(pages)

\* a page answered 404 and a page answered 200 have both been recorded
C11_Witness ==
    /\ \E i \in DOMAIN pages : pages[i].status = 404 /\ pages[i] \in Range(broken_links)
    /\ \E i \in DOMAIN pages : pages[i].status = 200 /\ pages[i] \notin Range(broken_links)

\* worker w is at the step in which its fetch returns
ReturnsFetch(w) ==
    /\ worker[w].pc = "fetching"
    /\ fetch_returned'[worker[w].url] = fetch_returned[worker[w].url] + 1

\* C12: when the fetch of a dequeued URL ends in a timeout or transport failure,
\* a PageData with `error` set, no status and no content_hash is appended to
\* `pages`, the URL stays in `visited`, nothing is added to the frontier,
\* duplicate_map or broken_links for it, and the worker goes back to the queue
\* take, so that the crawl goes on with the other entries.
C12_FailedFetchHandled ==
    [][\A w \in Workers :
         (ReturnsFetch(w) /\ fetch(site, worker[w].url).error # None)
         => /\ Len(pages') = Len(pages) + 1
            /\ LET page == pages'[Len(pages')]
               IN  /\ page.url = worker[w].url /\ page.error # None
                   /\ page.status = NoStatus /\ page.content_hash = None
            /\ worker[w].url \in visited'
            /\ UNCHANGED <<queue, enqueued, puts, put_recs, duplicate_map, broken_links>>
            /\ worker'[w].pc = "idle"]_vars

\* the entries put on the frontier with page u as their source
PutsFrom(u) == {r \in put_recs : r.source = u}

\* C13: a page with a non-empty body whose Content-Type media type is present
\* and does not contain 'html' gets a PageData with no title and no links, its
\* body is still hashed and recorded in duplicate_map, and no frontier entry is
\* created from it; a page served with no Content-Type header is parsed.
C13_ParseGate ==
    \A i \in DOMAIN pages :
        LET page == pages[i]
            served == Response(site, page.url)
        IN  Truthy(served.content) =>
              /\ served.ctype \notin {"", HtmlCtype} =>
                    /\ page.title = None
                    /\ page.internal_links = <<>> /\ page.external_links = <<>>
                    /\ page.content_hash = md5(served.content)
                    /\ page.content_hash \in DOMAIN duplicate_map
                    /\ page.url \in Range(duplicate_map[page.content_hash])
                    /\ PutsFrom(page.url) = {}
              /\ (served.ctype = "" /\ ~served.malformed) =>
                    /\ page.title # None
                    /\ page.internal_links =
                          SelectLinks(PageHrefs(site.topo, OwnerOf(served.content)), TRUE)

\* a text/plain page and a page with no Content-Type have both been recorded,
\* and the link of the second one has been put on the frontier
C13_Witness ==
    /\ site.serve = "untyped" /\ site.topo = "fork"
    /\ \E i \in DOMAIN pages : pages[i].url = UA /\ pages[i].content_hash = md5(BodyOf(UA))
    /\ \E i \in DOMAIN pages : pages[i].url = UB /\ pages[i].internal_links # <<>>
    /\ \E r \in PutsFrom(UB) : r.url = UC

\* the same-domain links of the body served for u when that body is parsed as
\* HTML, none otherwise
LinksServed(u) ==
    LET served == Response(site, u)
    IN  IF Truthy(served.content) /\ served.ctype \in {"", HtmlCtype} /\ ~served.malformed
        THEN SelectLinks(PageHrefs(site.topo, OwnerOf(served.content)), TRUE)
        ELSE <<>>

\* C14 as stated: a URL whose fetch returns a status >= 400 gets a PageData that
\* is in both `pages` and `broken_links` and has no internal_links, so no
\* frontier entry is ever created from a broken page.
C14_BrokenPageHasNoLinks ==
    \A i \in DOMAIN pages :
        (pages[i].status # NoStatus /\ pages[i].status >= 400)
        => /\ pages[i] \in Range(broken_links)
           /\ pages[i].internal_links = <<>>
           /\ PutsFrom(pages[i].url) = {}

\* C14 as amended: a URL whose fetch returns a status >= 400 gets a PageData that
\* is in both `pages` and `broken_links`; its body is parsed like that of any
\* other page, so its internal_links are the same-domain links of the body, and
\* frontier entries are created from them and from nothing else.
C14_BrokenPageRecordedAndParsed ==
    \A i \in DOMAIN pages :
        (pages[i].status # NoStatus /\ pages[i].status >= 400)
        => /\ pages[i] \in Range(broken_links)
           /\ pages[i].internal_links = LinksServed(pages[i].url)
           /\ \A r \in PutsFrom(pages[i].url) : r.url \in Range(pages[i].internal_links)

\* a 404 page with an HTML body is in both lists and its link has been put on the
\* frontier with that page as source
C14_Witness ==
    /\ site.serve = "notfound"
    /\ \E i \in DOMAIN pages :
        /\ pages[i].url = UA /\ pages[i].status = 404
        /\ pages[i] \in Range(broken_links)
        /\ pages[i].internal_links # <<>>
    /\ PutsFrom(UA) # {}

\* the worker tasks that are still running
LiveWorkers == {w \in Workers : worker[w].pc \in {"idle", "acquire", "fetching"}}

\* C15: no exception raised while an entry is processed (by the fetch, the parse
\* or the progress callback) terminates a worker or the crawl: from the start of
\* the workers until their cancellation the number of live workers is `threads`,
\* so queued entries are never left without a worker to take them.
C15_WorkersSurvive ==
    main_pc = "join" =>
        /\ Cardinality(LiveWorkers) = threads
        /\ queue # <<>> => LiveWorkers # {}

\* C16: a failure of seeding never prevents the crawl: once _prepare_seed_urls
\* is over, the base URL has been put on the frontier at depth 0 (and heads it
\* when the workers are started); if the robots fetch or parse failed the rules
\* allow every URL; if the sitemap fetch failed, returned a status >= 400 or was
\* unparsable, no sitemap seed has been put.
C16_SeedingFailureTolerated ==
    main_pc \notin {"seed", "robots", "sitemap"} =>
        /\ \E r \in put_recs :
              r.url = base_url /\ r.depth = 0 /\ r.source = None /\ r.origin = "base"
        /\ main_pc = "start" => (queue # <<>> /\ Head(queue) = Entry(base_url, 0, None))
        /\ site.rob \in {"absent", "garbled"} => \A u \in Urls : ~RobotsDenies(u)
        /\ site.smap \in {"missing", "failed", "garbled"} =>
              \A r \in put_recs : r.origin # "sitemap"

\* robots.txt was unparsable and the sitemap fetch failed; the workers were
\* started and the base page and a page linked from it have been recorded
C16_Witness ==
    /\ site.rob = "garbled" /\ site.smap = "failed"
    /\ main_pc = "join"
    /\ Entry(base_url, 0, None) \in taken
    /\ \E i, j \in DOMAIN pages : pages[i].url = base_url /\ pages[j].url # base_url

\* the buckets of a duplicate map, each as the set of its URLs
BucketSets(dm) == [h \in DOMAIN dm |-> Range(dm[h])]

\* C17: two runs of crawl() with the same configuration against the same site,
\* served deterministically, yield the same set of PageData (the order of
\* `pages` aside) and the same duplicate_map, whatever the interleaving of the
\* workers in either run.
C17_SameResultAcrossRuns ==
    (run = 2 /\ main_pc = "done") =>
        /\ Range(result.pages) = Range(first_result.pages)
        /\ BucketSets(result.duplicate_map) = BucketSets(first_result.duplicate_map)

\* C18: if a progress callback is configured it is invoked exactly once for each
\* PageData appended to `pages`, with that PageData, after the append and before
\* any link of that page is enqueued (so a call that raises leaves the page in
\* `pages` and no link of it on the frontier), and it is never invoked for a URL
\* skipped by robots or depth.
C18_CallbackOncePerPage ==
    /\ [](progress_callback # None => cb_calls = pages)
    /\ [](\A i \in DOMAIN cb_calls :
            /\ ~RobotsDenies(cb_calls[i].url)
            /\ \E e \in emitted : e.url = cb_calls[i].url /\ ~TooDeep(e.depth))
    /\ [][\A w \in Workers :
            (ReturnsFetch(w) /\ progress_callback # None)
            => /\ Len(cb_calls') = Len(cb_calls) + 1
               /\ pages' = Append(pages, cb_calls'[Len(cb_calls')])
               /\ worker'[w].pc = "dead" => UNCHANGED <<queue, enqueued, puts, put_recs>>]_vars

\* the callback has been called for two pages and raised in one of the calls,
\* and an entry has been skipped for its depth
C18_Witness ==
    /\ progress_callback # None
    /\ Len(cb_calls) >= 2 /\ cb_calls = pages
    /\ \E w \in Workers : worker[w].pc = "dead"
    /\ \E e \in taken : TooDeep(e.depth) /\ PagesOf(pages, e.url) = {}

\* C19: the workers are cancelled only after the frontier is empty and every
\* taken entry has been marked done: queue.join() does not return while a URL is
\* waiting or being processed, at the moment of cancellation every live worker
\* is idle at the queue take, and none of visited, enqueued, edges, pages,
\* duplicate_map and broken_links changes after join() has returned.
C19_CancelAfterDrain ==
    /\ [](main_pc \in {"close", "done"} =>
            /\ queue = <<>> /\ unfinished = 0
            /\ \A w \in Workers : worker[w].pc \in {"returned", "dead"})
    /\ [][(main_pc = "join" /\ main_pc' = "close") =>
            /\ queue = <<>> /\ unfinished = 0
            /\ \A w \in LiveWorkers : worker[w].pc = "idle"
            /\ \A e \in taken : e.url \in visited]_vars
    /\ [][(main_pc \in {"close", "done"}) => UNCHANGED crawl_vars]_vars

\* crawl() has returned after two workers processed three pages, one worker
\* having been cancelled at the queue take
C19_Witness ==
    /\ main_pc = "done" /\ threads = 2
    /\ Len(result.pages) >= 3
    /\ \E w \in Workers : worker[w].pc = "returned"
    /\ Cardinality(taken) >= 3

\* C20: the fetcher's session is opened lazily by the first fetch and closed
\* exactly once on every exit path of crawl(), including an exit by exception
\* during seeding or while waiting for the workers; no fetch is issued after the
\* close, so no session is open once crawl() has ended.
C20_SessionClosedOnEveryExit ==
    /\ main_pc = "seed" => session = "none"
    /\ main_pc \in {"done", "raised"} => session # "open"
    /\ main_pc = "done" => \A w \in Workers : ~Busy(w)

\* entry e is one that _process_url leaves before the fetch, for robots or depth
SkippedEntry(e) == e.url \in Disallowed(site.rob) \/ e.depth > max_depth

\* C21 as stated: exactly one PageData is produced for every URL that leaves the
\* frontier, that is, for every entry dequeued by a worker (once crawl() has
\* returned, every dequeued entry has been processed to its end).
C21_PagePerTakenEntry ==
    main_pc = "done" => \A e \in taken : Cardinality(PagesOf(pages, e.url)) = 1

\* C21 as amended: exactly one PageData is produced for every dequeued entry that
\* is not skipped by robots or depth, once its fetch has returned, and none for
\* an entry that is skipped.
C21_PagePerFetchedEntry ==
    /\ \A e \in taken :
          Cardinality(PagesOf(pages, e.url)) =
              IF SkippedEntry(e) THEN 0 ELSE fetch_returned[e.url]
    /\ main_pc = "done" =>
          \A e \in taken : ~SkippedEntry(e) => Cardinality(PagesOf(pages, e.url)) = 1

\* crawl() has returned; one dequeued entry was skipped by robots, one by depth,
\* and two were fetched
C21_Witness ==
    /\ main_pc = "done"
    /\ \E e \in taken : e.url \in Disallowed(site.rob) /\ PagesOf(pages, e.url) = {}
    /\ \E e \in taken : e.depth > max_depth /\ PagesOf(pages, e.url) = {}
    /\ Len(pages) >= 2

\* C22: when crawl() returns, every URL in `enqueued` is in `visited` (the two
\* sets are equal), and every visited URL either has exactly one PageData in
\* `pages` or was skipped by robots or depth and has none.
C22_TerminalAccounting ==
    main_pc = "done" =>
        /\ enqueued = visited
        /\ \A u \in visited :
              \/ Cardinality(PagesOf(pages, u)) = 1
              \/ /\ \E e \in taken : e.url = u /\ SkippedEntry(e)
                 /\ PagesOf(pages, u) = {}

\* crawl() has returned with four URLs visited: some fetched, one of them with a
\* failed fetch, and one skipped
C22_Witness ==
    /\ main_pc = "done"
    /\ Cardinality(visited) >= 3 /\ enqueued = visited
    /\ \E e \in taken : SkippedEntry(e)
    /\ \E i \in DOMAIN pages : pages[i].error # None

\* the URLs put on the frontier by _prepare_seed_urls
SeedUrlsPut == {r.url : r \in {q \in put_recs : q.origin \in {"base", "sitemap"}}}

\* C23: every pair (s, t) in `edges` was appended when the entry for t was
\* dequeued with source s; each URL is the target of at most one edge, and the
\* seed and the sitemap-seeded URLs are the target of none.
C23_EdgesFromDequeuedEntries ==
    /\ [](\A i \in DOMAIN edges :
            /\ \E e \in taken : e.source = edges[i][1] /\ e.url = edges[i][2]
            /\ \A j \in DOMAIN edges : edges[j][2] = edges[i][2] => j = i
            /\ edges[i][2] \notin SeedUrlsPut)
    /\ [][(edges' # edges /\ run' = run) =>
            /\ queue # <<>> /\ queue' = Tail(queue)
            /\ Head(queue).source # None
            /\ edges' = Append(edges, <<Head(queue).source, Head(queue).url>>)]_vars

\* two edges have been recorded, and a sitemap-seeded URL that a processed page
\* links to has been dequeued without becoming the target of an edge
C23_Witness ==
    /\ Len(edges) >= 2
    /\ \E r \in put_recs :
        /\ r.origin = "sitemap"
        /\ \E e \in taken : e.url = r.url
        /\ \E i \in DOMAIN pages : r.url \in Range(pages[i].internal_links)
        /\ \A i \in DOMAIN edges : edges[i][2] # r.url

\* the workers whose page fetch is in flight
Fetching == {w \in Workers : worker[w].pc = "fetching"}

\* C24: at every point the number of page fetches in flight is at most
\* `threads`; a worker never has to wait for a semaphore permit, because each of
\* the `threads` workers holds at most one; and the permit is released on every
\* exit from the fetch, including a failed fetch.
C24_SemaphoreNeverBlocks ==
    /\ Cardinality(Fetching) <= threads
    /\ \A u \in Urls : fetch_started[u] - fetch_returned[u] \in {0, 1}
    /\ sem = threads - Cardinality(Fetching)
    /\ \A w \in Workers : worker[w].pc = "acquire" => sem > 0

\* after a failed fetch has returned, one worker is fetching and the other is
\* about to acquire the one permit left
C24_Witness ==
    /\ threads = 2 /\ sem = 1
    /\ \E i \in DOMAIN pages : pages[i].error # None
    /\ \E w1, w2 \in Workers : worker[w1].pc = "fetching" /\ worker[w2].pc = "acquire"

\* C25: at every point `visited` is a subset of `enqueued`, and the
\* `url in visited` check at the start of _process_url never succeeds: no entry
\* waiting in or taken from the frontier refers to a URL that is already visited.
C25_VisitedCheckNeverSucceeds ==
    /\ [](visited \subseteq enqueued)
    /\ [](\A i \in DOMAIN queue : queue[i].url \notin visited)
    /\ [][(taken' # taken /\ run' = run) =>
            /\ Head(queue).url \notin visited
            /\ visited' = visited \cup {Head(queue).url}]_vars

\* several pages that link to each other and to themselves have been processed
\* while entries are still waiting
C25_Witness ==
    /\ site.topo = "dups"
    /\ Cardinality(visited) >= 2
    /\ visited # enqueued /\ queue # <<>>
    /\ \E i \in DOMAIN pages : pages[i].url = UA

\* the links of a page that the link loop may put on the frontier
PuttableLinks(page) ==
    {l \in Range(page.internal_links) : is_allowed_scheme(l) /\ is_same_domain(l, base_url)}

\* C26: task_done() is called exactly once for every entry taken from the
\* frontier, also when _process_url raises, so the queue's count of unfinished
\* entries always equals the number of entries waiting in the frontier plus the
\* number being processed; and a page's links are enqueued before its entry is
\* marked done, so when the count is zero every followable link of every page
\* whose processing ran to its end is in `enqueued`.
C26_UnfinishedCount ==
    /\ unfinished = Len(queue) + Cardinality({w \in Workers : Busy(w)})
    /\ (unfinished = 0 /\ \A w \in Workers : worker[w].pc # "dead") =>
          \A i \in DOMAIN pages : PuttableLinks(pages[i]) \subseteq enqueued

\* the callback has raised in one worker while the other is processing an entry
\* and a link put by a finished page is still waiting
C26_Witness ==
    /\ \E w1, w2 \in Workers : worker[w1].pc = "dead" /\ Busy(w2)
    /\ queue # <<>>
    /\ \E r \in put_recs : r.origin = "link"
    /\ unfinished >= 2

====
